---- MODULE Spec2Model ----
(***************************************************************************)
(* Model of anyconfig's relational flattening engine                       *)
(* (anyconfig/backend/relations.py) and of the SQLite backend that         *)
(* consumes it (anyconfig/backend/sqlite.py).                              *)
(*                                                                         *)
(* Python values are tagged pairs <<tag, payload>>:                        *)
(*   <<"int", n>>            an int scalar                                 *)
(*   <<"list", s>>           a list, s the sequence of its items           *)
(*   <<"map", f>>            a dict, f a function from keys to values      *)
(*   <<"ref", <<r, i>>>>     Ref(relvar=r, id=i)                           *)
(*   <<"gen", f>>            the int object_to_id(sorted(f.items()))       *)
(* Python strings are sequences of one-character strings, so that they     *)
(* can be joined and compared the way Python joins and compares them.      *)
(***************************************************************************)
EXTENDS Integers, Sequences, FiniteSets, TLC

\* ------------------------------------------------------------------------
\* Bounds of the model
\* ------------------------------------------------------------------------
MaxNodes == 5     \* nodes (mappings, lists, scalars) of a tree document
MaxInt == 1       \* int scalars are 0..MaxInt
MaxListLen == 2   \* length of the list in a "list of records" document
MaxCalls == 2      \* successive dict_to_rels calls on one document object
MaxDumpNodes == 4  \* nodes of a tree document handed to dump
MaxDumps == 2      \* successive dump calls on one connection
MaxLoads == 1      \* load and load_from_string calls

\* ------------------------------------------------------------------------
\* Strings
\* ------------------------------------------------------------------------
Ord(c) ==
    CASE c = "_" -> 95
      [] c = "a" -> 97
      [] c = "b" -> 98
      [] c = "d" -> 100
      [] c = "e" -> 101
      [] c = "i" -> 105
      [] c = "l" -> 108
      [] c = "r" -> 114
      [] c = "v" -> 118

\* s < t for Python str: lexicographic on character codes
StrLess(s, t) ==
    \E i \in 1..(Len(s) + 1) :
        /\ i <= Len(t)
        /\ \A j \in 1..(i - 1) : s[j] = t[j]
        /\ (i = Len(s) + 1 \/ Ord(s[i]) < Ord(t[i]))

RECURSIVE SortedStrs(_)
\* sorted(S) for a set (or the keys of a dict) of strings
SortedStrs(S) ==
    IF S = {} THEN <<>>
    ELSE LET m == CHOOSE x \in S : \A y \in S \ {x} : StrLess(x, y)
         IN  <<m>> \o SortedStrs(S \ {m})

None == <<"None">>          \* Python's None where a string is expected
ID_KEY == <<"i", "d">>
Keya == <<"a">>
Keyb == <<"b">>
\* the keys of the documents; no two names of the model differ by case only
Keys == {Keya, Keyb, ID_KEY}
Names == {None, Keya}       \* the `name` argument of dict_to_rels

\* ------------------------------------------------------------------------
\* Values
\* ------------------------------------------------------------------------
IntV(n) == <<"int", n>>
ListV(s) == <<"list", s>>
DictV(f) == <<"map", f>>
Ref(relvar, id) == <<"ref", <<relvar, id>>>>
EmptyDict == <<>>

IsInt(v) == v[1] = "int"
IsList(v) == v[1] = "list"
IsRef(v) == v[1] = "ref"
RefRelvar(ref) == ref[2][1]
RefId(ref) == ref[2][2]

Scalars == {IntV(i) : i \in 0..MaxInt}

\* ------------------------------------------------------------------------
\* Documents: trees of mappings, lists and int scalars; an `id` field,
\* where a mapping has one, holds a scalar.
\* ------------------------------------------------------------------------
RECURSIVE ValsOfSize(_)
RECURSIVE ListsOfSize(_)
RECURSIVE MapsOfSize(_, _)

FieldVals(k, n) ==
    IF k = ID_KEY THEN (IF n = 1 THEN Scalars ELSE {}) ELSE ValsOfSize(n)

\* dicts over the keys in `ks` whose values have `n` nodes in all
MapsOfSize(n, ks) ==
    IF ks = <<>> THEN (IF n = 0 THEN {EmptyDict} ELSE {})
    ELSE MapsOfSize(n, Tail(ks)) \cup
         UNION {{(Head(ks) :> v) @@ m :
                    v \in FieldVals(Head(ks), j),
                    m \in MapsOfSize(n - j, Tail(ks))} : j \in 1..n}

\* lists whose items have `n` nodes in all
ListsOfSize(n) ==
    IF n = 0 THEN {<<>>}
    ELSE UNION {{<<v>> \o l : v \in ValsOfSize(j), l \in ListsOfSize(n - j)} :
                   j \in 1..n}

ValsOfSize(n) ==
    (IF n = 1 THEN Scalars ELSE {}) \cup
    (IF n >= 1 THEN {ListV(l) : l \in ListsOfSize(n - 1)} \cup
                    {DictV(m) : m \in MapsOfSize(n - 1, SortedStrs(Keys))}
     ELSE {})

TreeDocs == UNION {MapsOfSize(n - 1, SortedStrs(Keys)) : n \in 1..MaxNodes}

\* records: flat dicts of scalars over the keys `a` and `id`
Records == UNION {[ks -> Scalars] : ks \in SUBSET {Keya, ID_KEY}}
RecordLists == UNION {[1..n -> {DictV(r) : r \in Records}] : n \in 0..MaxListLen}
\* {K: [record, ...]}, the shape of the backend's own test document
ListDocs == {(k :> ListV(l)) : k \in {Keya, Keyb}, l \in RecordLists}

\* {K: [{k: m}]}: a list of one record that holds a mapping m of at most
\* one field
NestedListDocs ==
    {(K :> ListV(<<DictV(k :> DictV(m))>>)) :
        K \in {Keya, Keyb}, k \in {Keya, Keyb},
        m \in MapsOfSize(0, SortedStrs(Keys)) \cup
              MapsOfSize(1, SortedStrs(Keys))}

\* the documents handed to the SQLite backend
DumpDocs ==
    UNION {MapsOfSize(n - 1, SortedStrs(Keys)) : n \in 1..MaxDumpNodes} \cup
    ListDocs \cup NestedListDocs

\* ------------------------------------------------------------------------
\* anyconfig/backend/relations.py
\* ------------------------------------------------------------------------

\* object_to_id(sorted(dic.items())): the digest of the dict's content, kept
\* as the content itself (equal contents give equal ids, different contents
\* different ids: digest collisions are left out)
_gen_id(dic) == <<"gen", dic>>

RECURSIVE _gen_relvar(_)
\* '_'.join(args)
_gen_relvar(args) ==
    IF args = <<>> THEN <<>>
    ELSE IF Len(args) = 1 THEN args[1]
    ELSE args[1] \o <<"_">> \o _gen_relvar(Tail(args))

\* dic[key] = val
SetItem(dic, key, val) ==
    [k \in DOMAIN dic \cup {key} |-> IF k = key THEN val ELSE dic[k]]

\* tuple(sorted((k, v) for k, v in dic.items()))
SortedItems(dic) ==
    LET ks == SortedStrs(DOMAIN dic)
    IN  [i \in 1..Len(ks) |-> <<ks[i], dic[ks[i]]>>]

\* _rank_1_dict_to_rels without its `if idk not in dic`
_rank_1_dict_to_rels_AlwaysGenId(dic, relvar) ==
    LET rv == IF relvar = None THEN _gen_relvar(SortedStrs(DOMAIN dic))
              ELSE relvar
    IN  <<rv, SortedItems(SetItem(dic, ID_KEY, _gen_id(dic)))>>

_rank_1_dict_to_rels(dic, relvar) ==
    LET rv == IF relvar = None THEN _gen_relvar(SortedStrs(DOMAIN dic))
              ELSE relvar
        d1 == IF ID_KEY \notin DOMAIN dic
              THEN SetItem(dic, ID_KEY, _gen_id(dic)) ELSE dic
    IN  <<rv, SortedItems(d1)>>

\* (relvar, id) of a yielded tuple, None when the row has no id
_tuple_id(tpl) ==
    LET ids == {i \in 1..Len(tpl[2]) : tpl[2][i][1] = ID_KEY}
    IN  IF ids = {} THEN None
        ELSE <<tpl[1], tpl[2][CHOOSE i \in ids : TRUE][2]>>

\* _is_new_and_update_seen taking every tuple for new
_is_new_and_update_seen_AlwaysNew(tpl, seen) ==
    [new |-> TRUE, seen |-> seen \cup {_tuple_id(tpl)}]

_is_new_and_update_seen(tpl, seen) ==
    LET tid == _tuple_id(tpl)
    IN  IF tid \notin seen THEN [new |-> TRUE, seen |-> seen \cup {tid}]
        ELSE [new |-> FALSE, seen |-> seen]

RelvarPrefix == <<"r", "e", "l", "v", "a", "r", "_">>

\* _gen_relvar_from_dic without the prefix for a single key
_gen_relvar_from_dic_NoPrefix(dic) == _gen_relvar(SortedStrs(DOMAIN dic))

_gen_relvar_from_dic(dic) ==
    LET keys == SortedStrs(DOMAIN dic)
    IN  IF Len(keys) = 1 THEN RelvarPrefix \o keys[1] ELSE _gen_relvar(keys)

\* val and is_list_like(val) and not isinstance(val, Ref)
_is_list_item(val) == IsList(val) /\ val[2] # <<>>

is_dict_like(val) == val[1] = "map"

\* the order in which a dict with the keys `ks` is iterated: the keys listed
\* in `ord` in that order, the other keys after them
ItemsOrder(ks, ord) ==
    SelectSeq(ord, LAMBDA k : k \in ks) \o
    SortedStrs({k \in ks : \A i \in 1..Len(ord) : ord[i] # k})

\* the child relation name without its `if key == relvar`
ChildRelvar_AlwaysJoined(relvar, key) == _gen_relvar(<<relvar, key>>)

\* relation name of the children under `key` of a mapping flattened as `relvar`
ChildRelvar(relvar, key) ==
    IF key = relvar THEN _gen_relvar(<<relvar, key>>) ELSE key

RECURSIVE _ndict_to_rels_itr(_, _, _, _)
RECURSIVE ListItemsLoop(_, _, _, _, _)
RECURSIVE ItemLoop(_, _, _, _, _, _)
RECURSIVE DictItemsLoop(_, _, _, _, _, _)

\* for item in val: flatten {key: item, relvar: Ref(relvar, pid)} with a
\* fresh seen set; yields `out`, leaves the items (mutated in place) `items`
ItemLoop(items, key, relvar, crelvar, pid, ord) ==
    IF items = <<>> THEN [out |-> <<>>, items |-> <<>>]
    ELSE LET item == Head(items)
             ldic == [k \in {key, relvar} |->
                         IF k = relvar THEN Ref(relvar, pid) ELSE item]
             r == _ndict_to_rels_itr(ldic, {}, crelvar, ord)
             rest == ItemLoop(Tail(items), key, relvar, crelvar, pid, ord)
         IN  [out |-> r.out \o rest.out,
              items |-> <<IF key = relvar THEN item ELSE r.dic[key]>>
                        \o rest.items]

\* for key, val in litems
ListItemsLoop(dic, lkeys, relvar, pid, ord) ==
    IF lkeys = <<>> THEN [out |-> <<>>, dic |-> dic]
    ELSE LET key == Head(lkeys)
             crelvar == ChildRelvar(relvar, key)
             I == ItemLoop(dic[key][2], key, relvar, crelvar, pid, ord)
             rest == ListItemsLoop(dic, Tail(lkeys), relvar, pid, ord)
         IN  [out |-> I.out \o rest.out,
              dic |-> SetItem(rest.dic, key, ListV(I.items))]

\* for key, val in rdic.items(): nested mappings get an id, are replaced in
\* rdic by a Ref and are flattened with the caller's seen set; `mut` holds
\* the values of rdic as the loop leaves them in the document
DictItemsLoop(rdic, mut, keys, seen, relvar, ord) ==
    IF keys = <<>>
    THEN [out |-> <<>>, seen |-> seen, rdic |-> rdic, mut |-> mut]
    ELSE LET key == Head(keys)
             val == rdic[key]
         IN  IF ~is_dict_like(val)
             THEN DictItemsLoop(rdic, mut, Tail(keys), seen, relvar, ord)
             ELSE LET crelvar == ChildRelvar(relvar, key)
                      d == val[2]
                      reuse == /\ ID_KEY \in DOMAIN d
                               /\ \A k \in DOMAIN d : ~IsRef(d[k])
                      refid == IF reuse THEN d[ID_KEY] ELSE _gen_id(d)
                      d1 == IF reuse THEN d ELSE SetItem(d, ID_KEY, refid)
                      r == _ndict_to_rels_itr(d1, seen, crelvar, ord)
                      rest == DictItemsLoop(
                                  SetItem(rdic, key, Ref(crelvar, refid)),
                                  SetItem(mut, key, DictV(r.dic)),
                                  Tail(keys), r.seen, relvar, ord)
                  IN  [out |-> r.out \o rest.out, seen |-> rest.seen,
                       rdic |-> rest.rdic, mut |-> rest.mut]

\* The generator, run to its end: `out` is the sequence of the tuples
\* (relvar, row) it yields, `seen` the seen set and `dic` the dict as the
\* call leaves them, `relvar` the relation name the call used.
_ndict_to_rels_itr(dic, seen, relvar0, ord) ==
    IF DOMAIN dic = {}
    THEN [out |-> <<>>, seen |-> seen, dic |-> dic, relvar |-> relvar0]
    ELSE LET relvar == IF relvar0 = None THEN _gen_relvar_from_dic(dic)
                       ELSE relvar0
             lkeys == {k \in DOMAIN dic : _is_list_item(dic[k])}
             rdic == [k \in DOMAIN dic \ lkeys |-> dic[k]]
             pid == IF ID_KEY \in DOMAIN rdic THEN rdic[ID_KEY]
                    ELSE _gen_id(rdic)
             L == ListItemsLoop(dic, ItemsOrder(lkeys, ord), relvar, pid, ord)
             D == DictItemsLoop(rdic, rdic, ItemsOrder(DOMAIN rdic, ord),
                                seen, relvar, ord)
             tpl == _rank_1_dict_to_rels(D.rdic, relvar)
             S == _is_new_and_update_seen(tpl, D.seen)
         IN  [out |-> L.out \o D.out \o (IF S.new THEN <<tpl>> ELSE <<>>),
              seen |-> S.seen,
              dic |-> [k \in DOMAIN dic |->
                          IF k \in lkeys THEN L.dic[k] ELSE D.mut[k]],
              relvar |-> relvar]

dict_to_rels_itr(dic, name, ord) == _ndict_to_rels_itr(dic, {}, name, ord)

\* a row that cannot be put in a set: one of its values is a list
Unhashable(row) == \E i \in 1..Len(row) : IsList(row[i][2])

\* the grouping of dict_to_rels: the relation names in sorted order, each
\* with the set of its rows; TypeError when a row cannot be hashed
GroupRels(out) ==
    LET names == SortedStrs({out[i][1] : i \in 1..Len(out)})
    IN  IF \E i \in 1..Len(out) : Unhashable(out[i][2])
        THEN [exc |-> "TypeError", rels |-> <<>>]
        ELSE [exc |-> "none",
              rels |-> [n \in 1..Len(names) |->
                          <<names[n],
                            {out[i][2] : i \in {j \in 1..Len(out) :
                                                   out[j][1] = names[n]}}>>]]

dict_to_rels(dic, name, ord) ==
    LET r == dict_to_rels_itr(dic, name, ord)
        g == GroupRels(r.out)
    IN  [exc |-> g.exc, rels |-> g.rels, out |-> r.out, dic |-> r.dic,
         relvar |-> r.relvar]

\* ------------------------------------------------------------------------
\* sorted() on the rows of a relation
\* ------------------------------------------------------------------------
RECURSIVE ValCmp(_, _)
\* Python 2's cmp(v, w) for the values a row can hold: "lt", "eq", "gt", or
\* "unk" where the order rests on the digits of two different digests.
\* Numbers sort before tuples; a digest id has twelve digits, the int
\* scalars of the model are smaller.
ValCmp(v, w) ==
    IF v = w THEN "eq"
    ELSE IF IsRef(v) /\ IsRef(w)
    THEN IF RefRelvar(v) = RefRelvar(w) THEN ValCmp(RefId(v), RefId(w))
         ELSE IF StrLess(RefRelvar(v), RefRelvar(w)) THEN "lt" ELSE "gt"
    ELSE IF IsRef(w) THEN "lt"
    ELSE IF IsRef(v) THEN "gt"
    ELSE IF IsInt(v) /\ IsInt(w) THEN (IF v[2] < w[2] THEN "lt" ELSE "gt")
    ELSE IF IsInt(v) THEN "lt"
    ELSE IF IsInt(w) THEN "gt"
    ELSE "unk"

PairCmp(p, q) ==
    IF p[1] = q[1] THEN ValCmp(p[2], q[2])
    ELSE IF StrLess(p[1], q[1]) THEN "lt" ELSE "gt"

\* cmp of two rows (tuples of pairs): decided by the first pair that differs
RowCmp(r, s) ==
    LET diff == {i \in 1..Len(r) : i > Len(s) \/ r[i] # s[i]}
        first == CHOOSE i \in diff : \A j \in diff : i <= j
    IN  IF r = s THEN "eq"
        ELSE IF diff = {} THEN "lt"
        ELSE IF first > Len(s) THEN "gt"
        ELSE PairCmp(r[first], s[first])

\* the lists sorted(set(rows)) may be
SortedRows(rows) ==
    {sq \in [1..Cardinality(rows) -> rows] :
        /\ \A i, j \in DOMAIN sq : i # j => sq[i] # sq[j]
        /\ \A i, j \in DOMAIN sq : i < j => RowCmp(sq[j], sq[i]) # "lt"}

RECURSIVE SortedRels(_)
\* the values dict_to_rels may return: [(relvar, sorted rows), ...]
SortedRels(rels) ==
    IF rels = <<>> THEN {<<>>}
    ELSE {<<<<rels[1][1], sq>>>> \o rest :
             sq \in SortedRows(rels[1][2]), rest \in SortedRels(Tail(rels))}

\* ------------------------------------------------------------------------
\* anyconfig/backend/sqlite.py, and sqlite3 as the backend drives it
\* ------------------------------------------------------------------------
ERR_NOT_IMPL == "SQLite backend cannot do that!"
NoExc == "none"

\* a connection: `cur` the tables as the connection sees them, `com` the
\* tables as committed; a table is [name, cols, types, fks, rows]
NewConn == [cur |-> <<>>, com |-> <<>>]

Commit(conn) == [cur |-> conn.cur, com |-> conn.cur]

TableIdx(tables, tname) == {i \in DOMAIN tables : tables[i].name = tname}
TableOf(tables, tname) == tables[CHOOSE i \in TableIdx(tables, tname) : TRUE]

_is_ref(obj) == IsRef(obj)

_sqlite_type(val) ==
    IF val[1] \in {"int", "gen"} \/ _is_ref(val) THEN "INTEGER" ELSE "BLOB"

\* [v.id if _is_ref(v) else v for v in zip(*items)[1]]
_sql_vars(items) ==
    [i \in DOMAIN items |->
        IF _is_ref(items[i][2]) THEN RefId(items[i][2]) ELSE items[i][2]]

\* "%s" % v: an int as its decimal digits; a digest id, twelve digits, is
\* kept as it is
DigitChar(d) ==
    CASE d = 0 -> "0" [] d = 1 -> "1" [] d = 2 -> "2" [] d = 3 -> "3"
      [] d = 4 -> "4" [] d = 5 -> "5" [] d = 6 -> "6" [] d = 7 -> "7"
      [] d = 8 -> "8" [] d = 9 -> "9"

RECURSIVE Digits(_)
Digits(n) == IF n < 10 THEN <<DigitChar(n)>>
             ELSE Append(Digits(n \div 10), DigitChar(n % 10))

StrOf(v) == IF IsInt(v) THEN Digits(v[2]) ELSE v

\* zip(*items)[1]
RawVars(items) == [i \in DOMAIN items |-> items[i][2]]

\* the value of a column no value was stored in
NULL == <<"null", 0>>

\* sqlite3 can bind the value to a `?`
Bindable(v) == v[1] \in {"int", "gen"}

\* the statement as executed, with the exception it raised
\* (`qual` the column list of an INSERT, `nph` its number of `?`)
Stmt(op, tname, cols, types, fks, qual, nph, vals, exc) ==
    [op |-> op, table |-> tname, cols |-> cols, types |-> types, fks |-> fks,
     qual |-> qual, nph |-> nph, vals |-> vals, exc |-> exc]

\* cursor.execute("CREATE TABLE IF NOT EXISTS 'relvar' (kts[, fks])"):
\* with foreign_keys and no clause the statement ends in ", )" and does not
\* compile. Python 2's sqlite3 commits an open transaction before a
\* statement that is no INSERT/UPDATE/DELETE/REPLACE, and DDL is
\* committed as it runs.
ExecCreate(conn, relvar, cols, types, fks, foreign_keys) ==
    LET bad == foreign_keys /\ fks = <<>>
        cur1 == IF bad \/ TableIdx(conn.cur, relvar) # {} THEN conn.cur
                ELSE Append(conn.cur,
                            [name |-> relvar, cols |-> cols, types |-> types,
                             fks |-> fks, rows |-> <<>>])
    IN  [conn |-> [cur |-> cur1, com |-> cur1],
         stmt |-> Stmt("create", relvar, cols, types, fks, <<>>, 0, <<>>,
                       IF bad THEN "OperationalError" ELSE NoExc)]

\* cursor.execute("INSERT OR REPLACE INTO 'relvar' VALUES (?, ...)", vals)
\* with `nph` placeholders, or, with `qualified`, the statement with the
\* column list `qual`. The statement is compiled (its columns must be the
\* table's, and as many as the `?`), then the number of values is checked,
\* then the values are bound. The tables have no key, so the row is added;
\* a column the statement does not name is NULL.
ExecInsert(conn, relvar, nph, qualified, qual, vals) ==
    LET i == CHOOSE j \in TableIdx(conn.cur, relvar) : TRUE
        t == conn.cur[i]
        tcols == {t.cols[c] : c \in DOMAIN t.cols}
        exc == IF qualified /\ \E j \in DOMAIN qual : qual[j] \notin tcols
               THEN "OperationalError"
               ELSE IF ~qualified /\ Len(t.cols) # nph THEN "OperationalError"
               ELSE IF qualified /\ Len(qual) # nph THEN "OperationalError"
               ELSE IF Len(vals) # nph THEN "ProgrammingError"
               ELSE IF \E j \in DOMAIN vals : ~Bindable(vals[j])
               THEN "InterfaceError"
               ELSE NoExc
        row == IF ~qualified THEN vals
               ELSE [c \in DOMAIN t.cols |->
                       IF \E j \in DOMAIN qual : qual[j] = t.cols[c]
                       THEN vals[CHOOSE j \in DOMAIN qual : qual[j] = t.cols[c]]
                       ELSE NULL]
        cur1 == IF exc # NoExc THEN conn.cur
                ELSE [conn.cur EXCEPT ![i].rows = Append(@, row)]
    IN  [conn |-> [cur |-> cur1, com |-> conn.com],
         stmt |-> Stmt("insert", relvar, <<>>, <<>>, <<>>, qual, nph, vals,
                       exc)]

RECURSIVE InsertLoop(_, _, _, _)
\* for stmt, items in _dml_st_itr(relvar, data, keys): _try_exec(...)
InsertLoop(conn, relvar, data, nkeys) ==
    IF data = <<>> THEN [conn |-> conn, stmts |-> <<>>, exc |-> NoExc]
    ELSE LET items == Head(data)
             E == IF Len(items) < nkeys
                  THEN LET rvars == _sql_vars(items)
                       IN  ExecInsert(conn, relvar, Len(rvars), TRUE,
                                      [j \in DOMAIN rvars |-> StrOf(rvars[j])],
                                      RawVars(items))
                  ELSE ExecInsert(conn, relvar, nkeys, FALSE, <<>>,
                                  _sql_vars(items))
         IN  IF E.stmt.exc # NoExc
             THEN [conn |-> E.conn, stmts |-> <<E.stmt>>, exc |-> E.stmt.exc]
             ELSE LET rest == InsertLoop(E.conn, relvar, Tail(data), nkeys)
                  IN  [conn |-> rest.conn, stmts |-> <<E.stmt>> \o rest.stmts,
                       exc |-> rest.exc]

\* the foreign key clauses: one per Ref of the first row
ForeignKeys(row) ==
    LET refs == SelectSeq(row, LAMBDA kv : _is_ref(kv[2]))
    IN  [i \in DOMAIN refs |-> <<refs[i][1], RefRelvar(refs[i][2])>>]

_create_table_and_insert_data(conn, relvar, data, foreign_keys) ==
    LET keys == [i \in DOMAIN data[1] |-> data[1][i][1]]
        types == [i \in DOMAIN data[1] |-> _sqlite_type(data[1][i][2])]
        fks == IF foreign_keys THEN ForeignKeys(data[1]) ELSE <<>>
        C == ExecCreate(conn, relvar, keys, types, fks, foreign_keys)
        I == InsertLoop(Commit(C.conn), relvar, data, Len(keys))
    IN  IF C.stmt.exc # NoExc
        THEN [conn |-> C.conn, stmts |-> <<C.stmt>>, exc |-> C.stmt.exc]
        ELSE [conn |-> IF I.exc = NoExc THEN Commit(I.conn) ELSE I.conn,
              stmts |-> <<C.stmt>> \o I.stmts, exc |-> I.exc]

\* any(r for r in data if any(_is_ref(v) for v in zip(*r)[1]))
HasRefs(data) ==
    \E i \in DOMAIN data : \E j \in DOMAIN data[i] : _is_ref(data[i][j][2])

\* the tables in name order, each created as its turn comes
DumpOrder_OnePass(rels) ==
    [i \in DOMAIN rels |-> <<rels[i][1], rels[i][2], HasRefs(rels[i][2])>>]

\* the calls of _create_table_and_insert_data in the order the two loops of
\* dump make them: (relvar, data, foreign_keys)
DumpOrder(rels) ==
    LET indep == SelectSeq(rels, LAMBDA r : ~HasRefs(r[2]))
        rrels == SelectSeq(rels, LAMBDA r : HasRefs(r[2]))
    IN  [i \in DOMAIN indep |-> <<indep[i][1], indep[i][2], FALSE>>] \o
        [i \in DOMAIN rrels |-> <<rrels[i][1], rrels[i][2], TRUE>>]

RECURSIVE DumpLoop_GoOn(_, _)
\* the calls in turn, going on to the next table after an exception
DumpLoop_GoOn(conn, todo) ==
    IF todo = <<>> THEN [conn |-> conn, stmts |-> <<>>, exc |-> NoExc]
    ELSE LET T == _create_table_and_insert_data(conn, todo[1][1], todo[1][2],
                                                todo[1][3])
             rest == DumpLoop_GoOn(T.conn, Tail(todo))
         IN  [conn |-> rest.conn, stmts |-> T.stmts \o rest.stmts,
              exc |-> IF T.exc # NoExc THEN T.exc ELSE rest.exc]

RECURSIVE DumpLoop(_, _)
\* the calls in turn; the first exception ends the dump
DumpLoop(conn, todo) ==
    IF todo = <<>> THEN [conn |-> conn, stmts |-> <<>>, exc |-> NoExc]
    ELSE LET T == _create_table_and_insert_data(conn, todo[1][1], todo[1][2],
                                                todo[1][3])
         IN  IF T.exc # NoExc THEN T
             ELSE LET rest == DumpLoop(T.conn, Tail(todo))
                  IN  [conn |-> rest.conn, stmts |-> T.stmts \o rest.stmts,
                       exc |-> rest.exc]

\* dump, given the list dict_to_rels returned
dump(rels, conn) == DumpLoop(conn, DumpOrder(rels))

\* load(conn): table name -> list of dicts, the tables in the order of
\* sqlite_master
load(conn) ==
    [i \in DOMAIN conn.cur |->
        <<conn.cur[i].name,
          [r \in DOMAIN conn.cur[i].rows |->
              [k \in {conn.cur[i].cols[c] : c \in DOMAIN conn.cur[i].cols} |->
                  conn.cur[i].rows[r][CHOOSE c \in DOMAIN conn.cur[i].cols :
                                         conn.cur[i].cols[c] = k]]]>>]

RECURSIVE SortTables(_)
SortTables(tables) ==
    IF tables = <<>> THEN <<>>
    ELSE LET names == SortedStrs({tables[i].name : i \in DOMAIN tables})
         IN  [n \in DOMAIN names |-> TableOf(tables, names[n])]

\* "\n".join(conn.iterdump()): per table, in name order, its CREATE TABLE
\* and one INSERT per row
IterDump(conn) ==
    LET ts == SortTables(conn.cur)
        Of(t) == <<Stmt("create", t.name, t.cols, t.types, t.fks, <<>>, 0, <<>>,
                        NoExc)>> \o
                 [r \in DOMAIN t.rows |->
                     Stmt("insert", t.name, <<>>, <<>>, <<>>, <<>>, 0, t.rows[r],
                          NoExc)]
        Cat[n \in 0..Len(ts)] == IF n = 0 THEN <<>> ELSE Cat[n - 1] \o Of(ts[n])
    IN  Cat[Len(ts)]

RECURSIVE ExecScript(_, _)
\* cursor.executescript(stmts) on the statements of a dump
ExecScript(conn, script) ==
    IF script = <<>> THEN Commit(conn)
    ELSE LET st == Head(script)
             E == IF st.op = "create"
                  THEN ExecCreate(conn, st.table, st.cols, st.types, st.fks,
                                  FALSE)
                  ELSE ExecInsert(conn, st.table, Len(st.vals), FALSE, <<>>,
                                  st.vals)
         IN  ExecScript(E.conn, Tail(script))

\* loads(stmts): a new in-memory connection, the script, then load
loads(stmts) ==
    LET conn == ExecScript(NewConn, stmts)
    IN  [exc |-> NoExc, data |-> load(conn), executed |-> Len(stmts)]

\* Parser.load_from_string(content, to_container)
load_from_string(content) == loads(content)

\* ------------------------------------------------------------------------
\* State
\* ------------------------------------------------------------------------
\* The orders a run may iterate its dicts in. Both loops of the engine skip
\* the fields that hold scalars, and an `id` holds a scalar, so it is the
\* relative order of the other keys that a run can tell apart.
Orders == {o \in [1..Cardinality(Keys \ {ID_KEY}) -> Keys \ {ID_KEY}] :
              \A i, j \in DOMAIN o : i # j => o[i] # o[j]}

NoReturn == [exc |-> "nocall", rels |-> <<>>]

VARIABLES
    doc,        \* the caller's document, a dict (mutated by the engine)
    name,       \* the relation name the caller supplies, or None
    order,      \* the order in which the dicts of this run are iterated
    calls,      \* number of dict_to_rels calls made on doc
    yielded,    \* tuples yielded by dict_to_rels_itr in the last call
    ret,        \* what the last dict_to_rels call returned or raised
    prev,       \* what the dict_to_rels call before it returned or raised
    relvar,     \* relation name the last call used for the document
    orig,       \* the document as the caller built it
    conn,       \* the SQLite connection
    dumps,      \* number of dump calls made on conn
    dumped,     \* the last dump: the relations it was to store, the
                \* statements it executed, what it raised
    loads_n,    \* number of load and load_from_string calls made
    loaded,     \* what the last load or load_from_string returned or raised
    text        \* what dumps returned or raised

vars == <<doc, name, order, calls, yielded, ret, prev, relvar, orig,
          conn, dumps, dumped, loads_n, loaded, text>>

NoDump == [exc |-> "nocall", stmts |-> <<>>, rels |-> <<>>, before |-> NewConn]
NoText == [exc |-> "nocall", script |-> <<>>]
NoLoad == [via |-> "nocall", exc |-> NoExc, data |-> <<>>, executed |-> 0]

InitWith(docs) ==
    /\ doc \in docs
    /\ name \in Names
    /\ order \in Orders
    /\ calls = 0
    /\ yielded = <<>>
    /\ ret = NoReturn
    /\ prev = NoReturn
    /\ relvar = None
    /\ orig = doc
    /\ conn = NewConn
    /\ dumps = 0
    /\ dumped = NoDump
    /\ loads_n = 0
    /\ loaded = NoLoad
    /\ text = NoText

\* the caller has built a tree document
Init == InitWith(TreeDocs)

\* the caller has built a list of records
InitRecords == InitWith(ListDocs)

\* rels = dict_to_rels(doc, name)
DictToRels ==
    /\ calls < MaxCalls
    /\ \E r \in {dict_to_rels(doc, name, order)} :
           /\ doc' = r.dic
           /\ yielded' = r.out
           /\ ret' = [exc |-> r.exc, rels |-> r.rels]
           /\ relvar' = r.relvar
    /\ prev' = ret
    /\ calls' = calls + 1
    /\ UNCHANGED <<name, order, orig, conn, dumps, dumped, loads_n, loaded,
                   text>>

Next == DictToRels

Spec == Init /\ [][Next]_vars

SpecRecords == InitRecords /\ [][Next]_vars

\* a document and a new connection; dump flattens with no relation name
InitSqlite == InitWith(DumpDocs) /\ name = None

\* dump(doc, conn): the flattening, sorted, then the tables; a TypeError of
\* dict_to_rels leaves the connection alone
Dump ==
    /\ dumps < MaxDumps
    /\ \E r \in {dict_to_rels(doc, None, order)} :
           /\ doc' = r.dic
           /\ IF r.exc # NoExc
              THEN /\ dumped' = [exc |-> r.exc, stmts |-> <<>>, rels |-> <<>>,
                                 before |-> conn]
                   /\ conn' = conn
              ELSE \E rels \in SortedRels(r.rels) :
                       \E d \in {dump(rels, conn)} :
                           /\ dumped' = [exc |-> d.exc, stmts |-> d.stmts,
                                         rels |-> rels, before |-> conn]
                           /\ conn' = d.conn
    /\ dumps' = dumps + 1
    /\ UNCHANGED <<name, order, calls, yielded, ret, prev, relvar, orig,
                   loads_n, loaded, text>>

\* data = load(conn)
Load ==
    /\ loads_n < MaxLoads
    /\ loaded' = [via |-> "load", exc |-> NoExc, data |-> load(conn),
                  executed |-> 0]
    /\ loads_n' = loads_n + 1
    /\ UNCHANGED <<doc, name, order, calls, yielded, ret, prev, relvar, orig,
                   conn, dumps, dumped, text>>

\* data = Parser().load_from_string(content, dict), the content being the
\* text dump of the connection
LoadFromString ==
    /\ loads_n < MaxLoads
    /\ \E r \in {load_from_string(IterDump(conn))} :
           loaded' = [via |-> "loads", exc |-> r.exc, data |-> r.data,
                      executed |-> r.executed]
    /\ loads_n' = loads_n + 1
    /\ UNCHANGED <<doc, name, order, calls, yielded, ret, prev, relvar, orig,
                   conn, dumps, dumped, text>>

\* text = Parser().dump_to_string(doc): dumps dumps into a new in-memory
\* connection and returns its text dump
DumpToString ==
    /\ text = NoText
    /\ \E r \in {dict_to_rels(doc, None, order)} :
           /\ doc' = r.dic
           /\ IF r.exc # NoExc
              THEN text' = [exc |-> r.exc, script |-> <<>>]
              ELSE \E rels \in SortedRels(r.rels) :
                       \E d \in {dump(rels, NewConn)} :
                           text' = [exc |-> d.exc,
                                    script |-> IF d.exc = NoExc
                                               THEN IterDump(d.conn) ELSE <<>>]
    /\ UNCHANGED <<name, order, calls, yielded, ret, prev, relvar, orig,
                   conn, dumps, dumped, loads_n, loaded>>

NextSqlite == Dump \/ Load \/ LoadFromString \/ DumpToString

SpecSqlite == InitSqlite /\ [][NextSqlite]_vars

\* ------------------------------------------------------------------------
\* Properties of the flattening engine
\* ------------------------------------------------------------------------
RelNames(rels) == {rels[i][1] : i \in DOMAIN rels}
RowsOf(rels, n) == UNION {rels[i][2] : i \in {j \in DOMAIN rels : rels[j][1] = n}}
HasField(row, k) == \E j \in DOMAIN row : row[j][1] = k
Field(row, k) == row[CHOOSE j \in DOMAIN row : row[j][1] = k][2]
RowRefs(row) == {row[j][2] : j \in {x \in DOMAIN row : IsRef(row[x][2])}}
Returned == calls > 0 /\ ret.exc = "none"

\* C1: every Ref in a row returned by dict_to_rels names a relation that is
\* in the output exactly once and that holds exactly one row whose id is
\* the Ref's id.
C1_ReferentialClosure ==
    Returned =>
        \A i \in DOMAIN ret.rels : \A row \in ret.rels[i][2] :
            \A ref \in RowRefs(row) :
                /\ Cardinality({j \in DOMAIN ret.rels :
                                   ret.rels[j][1] = RefRelvar(ref)}) = 1
                /\ Cardinality({r \in RowsOf(ret.rels, RefRelvar(ref)) :
                                   /\ HasField(r, ID_KEY)
                                   /\ Field(r, ID_KEY) = RefId(ref)}) = 1

\* C2: no two tuples yielded in one flattening call have the same relation
\* name and the same id but different rows.
C2_NoDuplicateEmission ==
    \A i, j \in DOMAIN yielded :
        (_tuple_id(yielded[i]) = _tuple_id(yielded[j]))
            => yielded[i][2] = yielded[j][2]

\* C3: every value of every row the engine yields is a scalar or a Ref,
\* never a mapping or a list.
C3_RowValuesFlat ==
    \A i \in DOMAIN yielded : \A j \in DOMAIN yielded[i][2] :
        LET v == yielded[i][2][j][2]
        IN  ~IsList(v) /\ ~is_dict_like(v)

\* C5: a second dict_to_rels call on the same document object returns what
\* the first call returned.
C5_GroupingDeterministic ==
    calls = 2 => ret = prev

\* `row` is the tuple of the (key, value) pairs of `dic`, sorted by key
IsSortedRowOf(row, dic) ==
    /\ Len(row) = Cardinality(DOMAIN dic)
    /\ \A i \in DOMAIN row :
           row[i][1] \in DOMAIN dic /\ row[i][2] = dic[row[i][1]]
    /\ \A i, j \in DOMAIN row : i < j => StrLess(row[i][1], row[j][1])

ListFields(dic) == {k \in DOMAIN dic : IsList(dic[k]) /\ dic[k][2] # <<>>}
ScalarList(v) == \A i \in DOMAIN v[2] : IsInt(v[2][i])
FlatDict(dic) == \A k \in DOMAIN dic : IsInt(dic[k])

\* C6: for each field f of the document that holds a list of scalars, the
\* output of the first call has the child relation (f, or R_f when f is the
\* document's relation name R) and, for each list element e, exactly one row
\* of it has the field (f, e); that row has a Ref to relation R under field R
\* and an id; the relation R has a row with the document's non-list fields.
C6_ScalarListRows ==
    (calls = 1 /\ ret.exc = "none") =>
        \A f \in {k \in ListFields(orig) : ScalarList(orig[k])} :
            LET child == IF f = relvar THEN relvar \o <<"_">> \o f ELSE f
            IN  /\ child \in RelNames(ret.rels)
                /\ \A i \in DOMAIN orig[f][2] :
                       Cardinality(
                           {row \in RowsOf(ret.rels, child) :
                               /\ HasField(row, f)
                               /\ Field(row, f) = orig[f][2][i]}) = 1
                /\ \A row \in RowsOf(ret.rels, child) :
                       (HasField(row, f) /\ IsInt(Field(row, f))) =>
                           /\ HasField(row, relvar)
                           /\ IsRef(Field(row, relvar))
                           /\ RefRelvar(Field(row, relvar)) = relvar
                           /\ HasField(row, ID_KEY)
                /\ \E row \in RowsOf(ret.rels, relvar) :
                       \A k \in DOMAIN orig \ ListFields(orig) :
                           HasField(row, k)

NestedFields(dic) == {k \in DOMAIN dic : is_dict_like(dic[k])}

\* the documents of C7: a mapping with an id whose other fields are scalars
\* or, at least one of them, mappings of scalars with an id
C7_Case ==
    /\ calls > 0
    /\ ID_KEY \in DOMAIN orig
    /\ NestedFields(orig) # {}
    /\ \A k \in DOMAIN orig :
           \/ IsInt(orig[k])
           \/ /\ is_dict_like(orig[k])
              /\ k # relvar
              /\ ID_KEY \in DOMAIN orig[k][2]
              /\ FlatDict(orig[k][2])

\* C7: a mapping with its own id, flattened as R, whose fields k (other than
\* R) that hold a mapping of scalars with its own id i: the output has the
\* relation k with the nested mapping's sorted fields as its one row, the row
\* of R binds k to Ref(k, i) and keeps the other fields, and there is no
\* other relation.
C7_NestedExternalized ==
    C7_Case =>
        /\ ret.exc = "none"
        /\ RelNames(ret.rels) = NestedFields(orig) \cup {relvar}
        /\ \A k \in NestedFields(orig) :
               \E row \in RowsOf(ret.rels, k) :
                   /\ RowsOf(ret.rels, k) = {row}
                   /\ IsSortedRowOf(row, orig[k][2])
        /\ \E row \in RowsOf(ret.rels, relvar) :
               /\ RowsOf(ret.rels, relvar) = {row}
               /\ IsSortedRowOf(row,
                      [k \in DOMAIN orig |->
                          IF k \in NestedFields(orig)
                          THEN Ref(k, orig[k][2][ID_KEY]) ELSE orig[k]])

C7_Witness == C7_Case /\ name # None /\ Cardinality(DOMAIN orig) > 2

\* the documents of C8: scalar fields only, an id among them, a name supplied
C8_Case ==
    /\ calls > 0
    /\ name # None
    /\ ID_KEY \in DOMAIN orig
    /\ FlatDict(orig)

\* C8: a mapping of scalars with an id, flattened under the supplied name R,
\* yields the one relation R with the one row of the mapping's pairs sorted
\* by field name; the mapping is left as it was.
C8_FlatWithId ==
    C8_Case =>
        /\ ret.exc = "none"
        /\ Len(ret.rels) = 1
        /\ ret.rels[1][1] = name
        /\ \E row \in ret.rels[1][2] :
               ret.rels[1][2] = {row} /\ IsSortedRowOf(row, orig)
        /\ Len(yielded) = 1
        /\ doc = orig

C8_Witness == C8_Case /\ Cardinality(DOMAIN orig) > 1

\* C9: the relation name derived for a non-empty mapping is none of the
\* mapping's keys: it is 'relvar_' + k for the one key k, and the sorted keys
\* joined with '_' for two keys or more.
C9_DerivedRelvar ==
    (calls > 0 /\ name = None /\ DOMAIN orig # {}) =>
        /\ relvar \notin DOMAIN orig
        /\ \A k \in DOMAIN orig :
               DOMAIN orig = {k} => relvar = RelvarPrefix \o k
        /\ \A k1, k2 \in DOMAIN orig :
               (DOMAIN orig = {k1, k2} /\ StrLess(k1, k2))
                   => relvar = k1 \o <<"_">> \o k2
        /\ \A k1, k2, k3 \in DOMAIN orig :
               (DOMAIN orig = {k1, k2, k3} /\ StrLess(k1, k2) /\ StrLess(k2, k3))
                   => relvar = k1 \o <<"_">> \o k2 \o <<"_">> \o k3

C9_Witness ==
    /\ calls > 0
    /\ name = None
    /\ \E k \in DOMAIN orig : DOMAIN orig = {k} /\ relvar = RelvarPrefix \o k

\* ------------------------------------------------------------------------
\* Properties of the SQLite backend
\* ------------------------------------------------------------------------
Creates == {i \in DOMAIN dumped.stmts : dumped.stmts[i].op = "create"}
CreatedBefore(i, tname) ==
    \E j \in Creates : j < i /\ dumped.stmts[j].table = tname
FkTargets(st) == {st.fks[k][2] : k \in DOMAIN st.fks}
\* no row of the relation holds a Ref
Independent(tname) ==
    \E i \in DOMAIN dumped.rels :
        dumped.rels[i][1] = tname /\ ~HasRefs(dumped.rels[i][2])

\* C4: among the statements a dump executes, the CREATE TABLE of a table
\* with a FOREIGN KEY clause comes after the CREATE TABLE of every relation
\* the clauses reference, dependent relations included.
C4_CreateAfterReferenced ==
    \A i \in Creates : \A t \in FkTargets(dumped.stmts[i]) : CreatedBefore(i, t)

\* C4, as the code has it: among the statements a dump executes, the CREATE
\* TABLE of a table with a FOREIGN KEY clause comes after the CREATE TABLE
\* of every independent relation the clauses reference.
C4_CreateAfterIndependent ==
    \A i \in Creates : \A t \in FkTargets(dumped.stmts[i]) :
        Independent(t) => CreatedBefore(i, t)

\* a dump that went through and created a table with a foreign key to an
\* independent relation
C4_Witness ==
    /\ dumped.exc = NoExc
    /\ \E i \in Creates : \E t \in FkTargets(dumped.stmts[i]) :
           Independent(t) /\ CreatedBefore(i, t)

\* C10: load_from_string fails with ERR_NOT_IMPL, executes no statement and
\* returns no data.
C10_LoadsNotImplemented ==
    loaded.via = "loads" =>
        /\ loaded.exc = ERR_NOT_IMPL
        /\ loaded.executed = 0
        /\ loaded.data = <<>>

\* the exceptions of sqlite3
StorageErrors == {"OperationalError", "ProgrammingError", "InterfaceError"}
\* the table the last dump was processing when it ended, as a position in
\* the order dump processes the relations
LastStmt == dumped.stmts[Len(dumped.stmts)]
Processing ==
    CHOOSE k \in DOMAIN DumpOrder(dumped.rels) :
        DumpOrder(dumped.rels)[k][1] = LastStmt.table
\* the table holds the row, a Ref as its id
Holds(tables, tname, row) ==
    \E i \in DOMAIN tables :
        /\ tables[i].name = tname
        /\ \E r \in DOMAIN tables[i].rows : tables[i].rows[r] = _sql_vars(row)

\* C11: when a statement of dump fails with an exception of the store
\* while the k-th table is processed, the tables processed before it are
\* committed with all their rows, no statement of a later table was
\* executed, the failing statement is the last one executed, and dump
\* raised its exception.
C11_PartialDump ==
    (dumps > 0 /\ \E i \in DOMAIN dumped.stmts : dumped.stmts[i].exc # NoExc) =>
        /\ dumped.exc = LastStmt.exc
        /\ dumped.exc \in StorageErrors
        /\ \A i \in 1..(Len(dumped.stmts) - 1) : dumped.stmts[i].exc = NoExc
        /\ \A i \in DOMAIN dumped.stmts :
               \E j \in 1..Processing :
                   DumpOrder(dumped.rels)[j][1] = dumped.stmts[i].table
        /\ \A j \in 1..(Processing - 1) :
               \A r \in DOMAIN DumpOrder(dumped.rels)[j][2] :
                   Holds(conn.com, DumpOrder(dumped.rels)[j][1],
                         DumpOrder(dumped.rels)[j][2][r])

\* a dump that failed at its second table or later
C11_Witness ==
    /\ dumps > 0
    /\ dumped.exc \in StorageErrors
    /\ Processing > 1

\* the container holds each field of the row, a Ref as its id
ContainerOf(c, row) ==
    \A j \in DOMAIN row :
        /\ row[j][1] \in DOMAIN c
        /\ c[row[j][1]] = _sql_vars(row)[j]
\* load was called after the one dump into the empty store
LoadedAfterDump ==
    dumps = 1 /\ loaded.via = "load" /\ loaded.data = load(conn)

\* C12: after one dump into an empty store, what load returns has, for
\* every relation of the flattening, an entry under the relation's name,
\* and in it, for every row of the relation, a container that maps each
\* field name of the row to its value, a Ref to its id.
C12_RowsRetrievable ==
    LoadedAfterDump =>
        \A i \in DOMAIN dumped.rels :
            \E e \in DOMAIN loaded.data :
                /\ loaded.data[e][1] = dumped.rels[i][1]
                /\ \A r \in DOMAIN dumped.rels[i][2] :
                       \E c \in DOMAIN loaded.data[e][2] :
                           ContainerOf(loaded.data[e][2][c],
                                       dumped.rels[i][2][r])

\* the document is {K: [m]}, m a mapping of scalars with an id of its own
C13_Case(K) ==
    /\ DOMAIN orig = {K}
    /\ IsList(orig[K])
    /\ Len(orig[K][2]) = 1
    /\ is_dict_like(orig[K][2][1])
    /\ ID_KEY \in DOMAIN orig[K][2][1][2]
    /\ \A k \in DOMAIN orig[K][2][1][2] : IsInt(orig[K][2][1][2][k])
ScriptCreates == {i \in DOMAIN text.script : text.script[i].op = "create"}
InsertsInto(tname) ==
    {i \in DOMAIN text.script :
        text.script[i].op = "insert" /\ text.script[i].table = tname}

\* C13: the text dump of a document {K: [m]}, m a mapping of scalars with
\* an id of its own, has exactly two tables: K with the columns K and id
\* and a foreign key from K to K_K(id), and K_K with the sorted field
\* names of m as columns; each has one row.
C13_TwoTables ==
    \A K \in Keys \ {ID_KEY} :
        (text # NoText /\ C13_Case(K)) =>
            /\ text.exc = NoExc
            /\ Cardinality(ScriptCreates) = 2
            /\ \E i \in ScriptCreates :
                   /\ text.script[i].table = K
                   /\ text.script[i].cols = SortedStrs({K, ID_KEY})
                   /\ text.script[i].fks = <<<<K, _gen_relvar(<<K, K>>)>>>>
            /\ \E i \in ScriptCreates :
                   /\ text.script[i].table = _gen_relvar(<<K, K>>)
                   /\ text.script[i].cols =
                          SortedStrs(DOMAIN orig[K][2][1][2])
            /\ Cardinality(InsertsInto(K)) = 1
            /\ Cardinality(InsertsInto(_gen_relvar(<<K, K>>))) = 1

\* C14: a table's CREATE TABLE and its inserts are committed as one unit:
\* a table of the committed store that the dump created for a relation has
\* all rows of that relation, also when an insert into it failed.
C14_TableWithRows ==
    dumps > 0 =>
        \A t \in DOMAIN conn.com :
            \A i \in DOMAIN dumped.rels :
                dumped.rels[i][1] = conn.com[t].name =>
                    \A r \in DOMAIN dumped.rels[i][2] :
                        Holds(conn.com, conn.com[t].name, dumped.rels[i][2][r])

RECURSIVE HasList(_)
\* a list occurs in the value
HasList(v) ==
    \/ IsList(v)
    \/ is_dict_like(v) /\ \E k \in DOMAIN v[2] : HasList(v[2][k])
RECURSIVE CountMaps(_)
\* number of mappings in the value (outside lists)
CountMaps(v) ==
    IF ~is_dict_like(v) THEN 0
    ELSE LET ks == SortedStrs(DOMAIN v[2])
             Sum[n \in 0..Len(ks)] ==
                 IF n = 0 THEN 0 ELSE Sum[n - 1] + CountMaps(v[2][ks[n]])
         IN  1 + Sum[Len(ks)]
PairsYieldedOnce ==
    \A i, j \in DOMAIN yielded :
        i # j => _tuple_id(yielded[i]) # _tuple_id(yielded[j])

\* C15: among the tuples one dict_to_rels_itr call yields, no (relation
\* name, id) pair occurs twice, whether the substructure is reached through
\* nested mappings or through list elements.
C15_YieldedOnce == calls > 0 => PairsYieldedOnce

\* C15, as the code has it: among the tuples one dict_to_rels_itr call
\* yields for a document without lists, no (relation name, id) pair occurs
\* twice (the nested mappings share one seen set; each list element is
\* flattened with a seen set of its own and may yield a pair again).
C15_YieldedOnceWithoutLists ==
    (calls > 0 /\ ~HasList(DictV(orig))) => PairsYieldedOnce

\* a document without lists, flattened, where the seen set held a tuple back
C15_Witness ==
    /\ calls > 0
    /\ orig # EmptyDict
    /\ ~HasList(DictV(orig))
    /\ Len(yielded) < CountMaps(DictV(orig))

\* a row with this id was yielded
RowYieldedWithId(id) ==
    \E i \in DOMAIN yielded : \E j \in DOMAIN yielded[i][2] :
        yielded[i][2][j] = <<ID_KEY, id>>
RECURSIVE AllTagged(_, _)
\* every mapping in `o` (the value before the call) that had no id has one
\* in `d` (the value after the call), the id of a yielded row
AllTagged(o, d) ==
    IF is_dict_like(o)
    THEN /\ ID_KEY \notin DOMAIN o[2] =>
                /\ ID_KEY \in DOMAIN d[2]
                /\ RowYieldedWithId(d[2][ID_KEY])
         /\ \A k \in DOMAIN o[2] : AllTagged(o[2][k], d[2][k])
    ELSE IF IsList(o)
    THEN \A i \in DOMAIN o[2] : AllTagged(o[2][i], d[2][i])
    ELSE TRUE

\* C16: after a non-empty document is flattened, every mapping of it that
\* had no id field, the top-level mapping included, has one, and it is the
\* id of the row emitted for the mapping.
C16_IdsWrittenBack ==
    (calls = 1 /\ ret.exc = "none" /\ orig # EmptyDict) =>
        AllTagged(DictV(orig), DictV(doc))

\* (column, referenced relation) for every column that holds a Ref in some
\* row of the relation
RefCols(data) ==
    UNION {{<<data[r][j][1], RefRelvar(data[r][j][2])>> :
               j \in {x \in DOMAIN data[r] : _is_ref(data[r][x][2])}} :
           r \in DOMAIN data}

\* C17: the CREATE TABLE that dump executes for a relation in which some
\* row holds a Ref is well formed and has exactly one FOREIGN KEY clause
\* for each column that holds a Ref, also when the first row holds none.
C17_ForeignKeyPerRefColumn ==
    \A s \in DOMAIN dumped.stmts : \A i \in DOMAIN dumped.rels :
        (/\ dumped.stmts[s].op = "create"
         /\ dumped.stmts[s].table = dumped.rels[i][1]
         /\ HasRefs(dumped.rels[i][2])) =>
            /\ dumped.stmts[s].exc = NoExc
            /\ Len(dumped.stmts[s].fks) = Cardinality(RefCols(dumped.rels[i][2]))
            /\ {dumped.stmts[s].fks[f] : f \in DOMAIN dumped.stmts[s].fks} =
                   RefCols(dumped.rels[i][2])

\* the inserts the last dump executed on the table, in their order: the
\* n-th is the insert of the n-th row of the relation
InsertsOf(tname) ==
    SelectSeq(dumped.stmts,
              LAMBDA st : st.op = "insert" /\ st.table = tname)
FieldNames(row) == [j \in DOMAIN row |-> row[j][1]]

\* C18: the insert that dump executes for a row with fewer fields than the
\* first row of its relation names the row's field names as its columns
\* and binds the row's values in that order, a Ref as its id.
C18_RaggedInsert ==
    \A i \in DOMAIN dumped.rels :
        \A n \in DOMAIN InsertsOf(dumped.rels[i][1]) :
            LET data == dumped.rels[i][2]
                st == InsertsOf(dumped.rels[i][1])[n]
            IN  Len(data[n]) < Len(data[1]) =>
                    /\ st.qual = FieldNames(data[n])
                    /\ st.vals = _sql_vars(data[n])

\* C19: a second dump of the document into the connection leaves the store
\* as the first dump left it: the same tables with the same rows, none
\* twice.
C19_DumpIdempotent == dumps = 2 => conn = dumped.before

\* the columns the insert stores its values in: those it names, else the
\* table's declared columns
TargetCols(st) ==
    IF st.qual # <<>> THEN st.qual ELSE TableOf(conn.cur, st.table).cols

\* C20: every insert that dump executes for a row has as many `?` as
\* values bound to it, and the values are the row's values, each in the
\* column of its field, for rows shorter than, as long as, or longer than
\* the first row of the relation.
C20_InsertAligned ==
    \A i \in DOMAIN dumped.rels :
        \A n \in DOMAIN InsertsOf(dumped.rels[i][1]) :
            LET row == dumped.rels[i][2][n]
                st == InsertsOf(dumped.rels[i][1])[n]
            IN  /\ st.nph = Len(st.vals)
                /\ st.vals = _sql_vars(row)
                /\ TargetCols(st) = FieldNames(row)

====
